---- MODULE Spec2Model ----
(***************************************************************************)
(* Connect-Four MCTS engine of "Assignment2/Problem 2" (game.py, mcts.py,  *)
(* main.py, config.py).                                                    *)
(*                                                                         *)
(* Python objects live in a heap: objs is the list of live Connect4State   *)
(* objects (objs[1] is the caller's `state`), nodes is the list of         *)
(* MCTSNode objects of the running mcts_search (nodes[1] is root_node).    *)
(* A node refers to its state and its parent by index, so that aliasing    *)
(* and cloning are distinguishable.  wins is kept doubled (wins2 = 2*wins) *)
(* because rewards are 0.0, 0.5 and 1.0.  Float scores are kept in         *)
(* millionths.                                                             *)
(***************************************************************************)
EXTENDS Integers, Sequences, FiniteSets, TLC

\* ---------------------------------------------------------------- config.py
ROWS == 6
COLS == 7
EMPTY == 0
PLAYER1 == 1
PLAYER2 == 2

\* Python's None (for a move, a player, a row, a parent)
None == -1

\* ------------------------------------------------------------------ bounds
\* largest n_iter handed to mcts_search / ai_play_move
MaxIter == 4

\* largest n_iter of the calls that are repeated with the same seed
MaxSeededIter == 3

\* the direct make_move calls that are followed on a game started from the
\* empty board and on a clone (calls on the recorded position go on until
\* the board is full)
MaxPlies == 3

\* the largest visit count of the trees handed to MCTSNode methods directly
MaxVisits == 4

\* the budgets n_iter handed to mcts_search / ai_play_move; non-positive
\* budgets are inputs too
Budgets == {0 - 1} \cup (0 .. MaxIter)

\* the budgets of the seeded calls
SeededBudgets == {0 - 1} \cup (0 .. MaxSeededIter)

\* ------------------------------------------------------------------- state
VARIABLES
  objs,         \* heap of Connect4State objects; objs[1] is the caller's state
  nodes,        \* MCTSNode objects of the running search; nodes[1] is root_node
  pc,           \* "idle", "loop", "simulate", "rollout", "returned", "raised"
  mode,         \* entry point of the running call: "mcts_search" or "ai_play_move"
  n_iter,       \* the iteration budget of the running call
  it,           \* iterations completed by the for loop
  root_player,  \* mcts_search's root_player
  node,         \* mcts_search's node (index into nodes)
  temp,         \* rollout's temp_state (index into objs)
  result,       \* the (move, mcts_stats) pair returned
  game_over,    \* the caller's game_over flag
  root0,        \* the caller's state as it was when the call was entered
  endedAtRoot,  \* iterations of this call whose simulated node was the root
  seeded,       \* TRUE when the caller seeds the random generator and replays calls
  draws,        \* the draws of the running call (kept when seeded)
  replay,       \* the draws still to come when the generator was reseeded
  trace,        \* the trees at the iteration boundaries of the running call (kept when seeded)
  first,        \* <<outcome of the first of two equally seeded calls>>, or <<>>
  copy,         \* the caller's reference to a clone() of its state (index into objs), or None
  call          \* the caller's last direct call or event (none once a search is entered) and what it returned

Rows == 0 .. (ROWS - 1)
Cols == 0 .. (COLS - 1)

Other(player) == IF player = PLAYER2 THEN PLAYER1 ELSE PLAYER2

\* ------------------------------------------------------------------ game.py
EmptyBoard == [r \in Rows |-> [c \in Cols |-> EMPTY]]

\* the number of pieces on a board
PieceCount(board) ==
  Cardinality({rc \in Rows \X Cols : board[rc[1]][rc[2]] # EMPTY})

\* Connect4State.__init__ : fresh move_history, copied board
Connect4State(board, current_player) ==
  [board |-> board, current_player |-> current_player, move_history |-> <<>>]

\* Connect4State.clone
clone(s) == Connect4State(s.board, s.current_player)

\* variant of get_legal_moves without the test of the top cell
get_legal_moves_unfiltered(s) == [i \in 1 .. COLS |-> i - 1]

\* Connect4State.get_legal_moves : columns in ascending order whose top cell is empty
get_legal_moves(s) ==
  SelectSeq([i \in 1 .. COLS |-> i - 1], LAMBDA col : s.board[0][col] = EMPTY)

\* variant of the row search that scans from the top row downwards
get_next_open_row_from_top(s, col) ==
  LET open == {r \in Rows : s.board[r][col] = EMPTY}
  IN  IF open = {} THEN None ELSE CHOOSE r \in open : \A q \in open : r <= q

\* Connect4State.get_next_open_row : lowest empty row of the column, or None
get_next_open_row(s, col) ==
  LET open == {r \in Rows : s.board[r][col] = EMPTY}
  IN  IF open = {} THEN None ELSE CHOOSE r \in open : \A q \in open : q <= r

\* Connect4State.make_move : the return value
make_move_ok(s, col) == get_next_open_row(s, col) # None

\* variant of make_move that hands the turn over even when the column is full
make_move_always_switches(s, col) ==
  LET r == get_next_open_row(s, col)
      player == s.current_player
  IN  [board |-> IF r = None THEN s.board ELSE [s.board EXCEPT ![r][col] = player],
       move_history |-> IF r = None THEN s.move_history
                        ELSE Append(s.move_history, <<r, col, player>>),
       current_player |-> IF player = PLAYER2 THEN PLAYER1 ELSE PLAYER2]

\* variant of make_move that leaves the turn with the player who moved
make_move_same_player(s, col) ==
  LET r == get_next_open_row(s, col)
      player == s.current_player
  IN  IF r = None THEN s
      ELSE [board |-> [s.board EXCEPT ![r][col] = player],
            move_history |-> Append(s.move_history, <<r, col, player>>),
            current_player |-> player]

\* Connect4State.make_move : the state after the call
make_move(s, col) ==
  LET r == get_next_open_row(s, col)
      player == s.current_player
  IN  IF r = None THEN s
      ELSE [board |-> [s.board EXCEPT ![r][col] = player],
            move_history |-> Append(s.move_history, <<r, col, player>>),
            current_player |-> IF player = PLAYER2 THEN PLAYER1 ELSE PLAYER2]

\* the four scans of check_winner, in the order of the code; each entry is
\* <<r, c, dr, dc>> : start cell and direction
HorizontalLines ==
  [i \in 1 .. ((COLS - 3) * ROWS) |-> <<(i - 1) % ROWS, (i - 1) \div ROWS, 0, 1>>]

VerticalLines ==
  [i \in 1 .. (COLS * (ROWS - 3)) |->
     <<(i - 1) % (ROWS - 3), (i - 1) \div (ROWS - 3), 1, 0>>]

DiagonalLines ==
  [i \in 1 .. ((COLS - 3) * (ROWS - 3)) |->
     <<(i - 1) % (ROWS - 3), (i - 1) \div (ROWS - 3), 1, 1>>]

AntiDiagonalLines ==
  [i \in 1 .. ((COLS - 3) * (ROWS - 3)) |->
     <<3 + ((i - 1) % (ROWS - 3)), (i - 1) \div (ROWS - 3), -1, 1>>]

Lines == HorizontalLines \o VerticalLines \o DiagonalLines \o AntiDiagonalLines

LineWon(board, l) ==
  /\ board[l[1]][l[2]] # EMPTY
  /\ \A i \in 0 .. 3 : board[l[1] + i * l[3]][l[2] + i * l[4]] = board[l[1]][l[2]]

\* Connect4State.check_winner : the owner of the first completed line in scan order
check_winner(s) ==
  LET hits == {i \in 1 .. Len(Lines) : LineWon(s.board, Lines[i])}
  IN  IF hits = {} THEN None
      ELSE LET hit == CHOOSE i \in hits : \A j \in hits : i <= j
           IN  s.board[Lines[hit][1]][Lines[hit][2]]

\* variant of is_full that never reports a full board
is_full_never(s) == FALSE

\* Connect4State.is_full
is_full(s) == \A col \in Cols : s.board[0][col] # EMPTY

\* variant of is_terminal that forgets the winner
is_terminal_full_only(s) == is_full(s)

\* Connect4State.is_terminal
is_terminal(s) == check_winner(s) # None \/ is_full(s)

\* main.py check_game_over : the first component of the result
check_game_over(s) ==
  IF check_winner(s) # None THEN TRUE
  ELSE IF is_full(s) THEN TRUE
  ELSE FALSE

\* ------------------------------------------------------------------ mcts.py
\* variant of clone() that hands out the object itself
CloneAlias(heap, sid) == [heap |-> heap, id |-> sid]

\* the heap operation behind `x.clone()` : a new object is allocated and
\* the result refers to it
CloneInto(heap, sid) ==
  [heap |-> Append(heap, clone(heap[sid])), id |-> Len(heap) + 1]

\* variant of MCTSNode.__init__ that counts the creation as a visit
MCTSNodeStartsVisited(heap, sid, parent, move) ==
  [state |-> sid, parent |-> parent, move |-> move, children |-> <<>>,
   visits |-> 1, wins2 |-> 0, untried_moves |-> get_legal_moves(heap[sid])]

\* variant of MCTSNode.__init__ that starts untried_moves from range(COLS)
MCTSNodeAllColumns(heap, sid, parent, move) ==
  [state |-> sid, parent |-> parent, move |-> move, children |-> <<>>,
   visits |-> 0, wins2 |-> 0, untried_moves |-> [i \in 1 .. COLS |-> i - 1]]

\* variant of MCTSNode.__init__ in which a root takes over the untried_moves
\* list of the root left by the previous call
MCTSNodeStale(heap, sid, parent, move) ==
  [state |-> sid, parent |-> parent, move |-> move, children |-> <<>>,
   visits |-> 0, wins2 |-> 0,
   untried_moves |-> IF parent = None /\ nodes # <<>>
                     THEN nodes[1].untried_moves
                     ELSE get_legal_moves(heap[sid])]

\* MCTSNode.__init__
MCTSNode(heap, sid, parent, move) ==
  [state |-> sid, parent |-> parent, move |-> move, children |-> <<>>,
   visits |-> 0, wins2 |-> 0, untried_moves |-> get_legal_moves(heap[sid])]

\* MCTSNode.is_fully_expanded
is_fully_expanded(n) == Len(n.untried_moves) = 0

\* floor(10^6 * 1.4 * sqrt(2 * ln(N) / n)) for N, n in 1 .. 8 : the
\* exploration term of best_child / get_ucb_score with c_param = 1.4
ExploreTable ==
  << <<0, 0, 0, 0, 0, 0, 0, 0>>,
     <<1648374, 1165576, 951689, 824187, 737175, 672945, 623026, 582788>>,
     <<2075225, 1467405, 1198131, 1037612, 928068, 847207, 784361, 733702>>,
     <<2331152, 1648374, 1345891, 1165576, 1042523, 951689, 881092, 824187>>,
     <<2511771, 1776090, 1450172, 1255885, 1123298, 1025426, 949360, 888045>>,
     <<2650225, 1873992, 1530108, 1325112, 1185217, 1081950, 1001691, 936996>>,
     <<2761877, 1952942, 1594570, 1380938, 1235149, 1127531, 1043891, 976471>>,
     <<2855067, 2018837, 1648374, 1427533, 1276825, 1165576, 1079114, 1009418>> >>

\* wins / visits in millionths
WinRate(wins2, visits) == (wins2 * 500000) \div visits

\* (child.wins / child.visits) + c_param * sqrt(2 * log(parent.visits) / child.visits)
UctScore(wins2, visits, parentVisits) ==
  WinRate(wins2, visits) + ExploreTable[parentVisits][visits]

\* the outcome of an operation that raises instead of returning a node
Raises == -2

\* Python's max(seq, key=...) : the index of the first maximal element
FirstMax(keys) ==
  CHOOSE i \in 1 .. Len(keys) :
    /\ \A j \in 1 .. Len(keys) : keys[j] <= keys[i]
    /\ \A j \in 1 .. (i - 1) : keys[j] < keys[i]

\* MCTSNode.best_child : the node index of the chosen child; the division by
\* child.visits and the logarithm of self.visits raise on zero
best_child(ns, k) ==
  LET ch == ns[k].children
  IN  IF ns[k].visits = 0 \/ \E i \in 1 .. Len(ch) : ns[ch[i]].visits = 0
      THEN Raises
      ELSE ch[FirstMax([i \in 1 .. Len(ch) |->
                 UctScore(ns[ch[i]].wins2, ns[ch[i]].visits, ns[k].visits)])]

\* MCTSNode.get_ucb_score
get_ucb_score(ns, k) ==
  IF ns[k].visits = 0 \/ ns[k].parent = None THEN 0
  ELSE UctScore(ns[k].wins2, ns[k].visits, ns[ns[k].parent].visits)

\* variant of most_visited_child that takes the child with the best win rate
highest_win_rate_child(ns, k) ==
  LET ch == ns[k].children
  IN  IF Len(ch) = 0 THEN None
      ELSE ch[FirstMax([i \in 1 .. Len(ch) |->
                 IF ns[ch[i]].visits = 0 THEN 0
                 ELSE WinRate(ns[ch[i]].wins2, ns[ch[i]].visits)])]

\* variant of most_visited_child that always gives the default
most_visited_child_default(ns, k) == None

\* MCTSNode.most_visited_child : max(children, key=visits, default=None)
most_visited_child(ns, k) ==
  LET ch == ns[k].children
  IN  IF Len(ch) = 0 THEN None
      ELSE ch[FirstMax([i \in 1 .. Len(ch) |-> ns[ch[i]].visits])]

\* the selection loop of mcts_search, started at node k
RECURSIVE Select(_, _)
Select(ns, k) ==
  IF is_fully_expanded(ns[k]) /\ Len(ns[k].children) > 0
  THEN LET b == best_child(ns, k)
       IN  IF b = Raises THEN Raises ELSE Select(ns, b)
  ELSE k

\* variant of the expansion that leaves the drawn move in untried_moves
ListRemoveNothing(seq, x) == seq

\* list.remove(x) : drops the first occurrence
ListRemove(seq, x) ==
  LET at == CHOOSE i \in 1 .. Len(seq) :
              seq[i] = x /\ \A j \in 1 .. (i - 1) : seq[j] # x
  IN  SubSeq(seq, 1, at - 1) \o SubSeq(seq, at + 1, Len(seq))

\* variant of rollout's result that scores a win of either player as 1.0
RolloutRewardAnyWinner(s, player) ==
  LET winner == check_winner(s)
  IN  IF winner # None THEN 2 ELSE 1

\* variant of rollout's result that scores a loss as -1.0
RolloutRewardSigned(s, player) ==
  LET winner == check_winner(s)
  IN  IF winner = player THEN 2
      ELSE IF winner = None THEN 1
      ELSE -2

\* the result of rollout, doubled : 1.0 / 0.5 / 0.0
RolloutReward(s, player) ==
  LET winner == check_winner(s)
  IN  IF winner = player THEN 2
      ELSE IF winner = None THEN 1
      ELSE 0

\* the nodes visited by the backpropagation loop started at node k
RECURSIVE ParentChain(_, _)
ParentChain(ns, k) ==
  IF k = None THEN {} ELSE {k} \cup ParentChain(ns, ns[k].parent)

\* variant of the backpropagation loop that credits the reward to the
\* simulated node only and counts the visit on the whole chain
BackpropagationLeafReward(ns, k, reward2) ==
  LET chain == ParentChain(ns, k)
  IN  [j \in 1 .. Len(ns) |->
         IF j = k
         THEN [ns[j] EXCEPT !.visits = @ + 1, !.wins2 = @ + reward2]
         ELSE IF j \in chain
         THEN [ns[j] EXCEPT !.visits = @ + 1]
         ELSE ns[j]]

\* variant of the backpropagation loop that starts at the parent of the
\* simulated node (the root itself when the root was simulated)
BackpropagationAboveNode(ns, k, reward2) ==
  LET chain == IF ns[k].parent = None THEN {k} ELSE ParentChain(ns, ns[k].parent)
  IN  [j \in 1 .. Len(ns) |->
         IF j \in chain
         THEN [ns[j] EXCEPT !.visits = @ + 1, !.wins2 = @ + reward2]
         ELSE ns[j]]

\* variant of the backpropagation loop that stops below the root
BackpropagationBelowRoot(ns, k, reward2) ==
  LET chain == ParentChain(ns, k) \ {1}
  IN  [j \in 1 .. Len(ns) |->
         IF j \in chain
         THEN [ns[j] EXCEPT !.visits = @ + 1, !.wins2 = @ + reward2]
         ELSE ns[j]]

\* the backpropagation loop of mcts_search
Backpropagation(ns, k, reward2) ==
  LET chain == ParentChain(ns, k)
  IN  [j \in 1 .. Len(ns) |->
         IF j \in chain
         THEN [ns[j] EXCEPT !.visits = @ + 1, !.wins2 = @ + reward2]
         ELSE ns[j]]

\* the statistics dictionary built at the end of mcts_search
ChildMoves(ns) == {ns[ns[1].children[i]].move : i \in 1 .. Len(ns[1].children)}

LastChildWith(ns, col) ==
  LET ch == ns[1].children
      at == CHOOSE i \in 1 .. Len(ch) :
              ns[ch[i]].move = col /\ \A j \in (i + 1) .. Len(ch) : ns[ch[j]].move # col
  IN  ch[at]

\* variant of the statistics that also lists the root's untried columns, with
\* zero visits
CollectStatsWithUntried(ns) ==
  LET best == most_visited_child(ns, 1)
      untried == {ns[1].untried_moves[i] : i \in 1 .. Len(ns[1].untried_moves)}
      cols == ChildMoves(ns) \cup untried
      child(col) == ns[LastChildWith(ns, col)]
  IN  [visits |-> [col \in cols |->
           IF col \in ChildMoves(ns) THEN child(col).visits ELSE 0],
       win_rates |-> [col \in cols |->
           IF col \in ChildMoves(ns) /\ child(col).visits > 0
           THEN WinRate(child(col).wins2, child(col).visits) ELSE 0],
       ucb_scores |-> [col \in cols |->
           IF col \in ChildMoves(ns) THEN get_ucb_score(ns, LastChildWith(ns, col)) ELSE 0],
       best_move |-> IF best # None THEN ns[best].move ELSE None,
       best_ucb |-> IF best # None THEN get_ucb_score(ns, best) ELSE 0]

CollectStats(ns) ==
  LET best == most_visited_child(ns, 1)
  IN  [visits |-> [col \in ChildMoves(ns) |-> ns[LastChildWith(ns, col)].visits],
       win_rates |-> [col \in ChildMoves(ns) |->
           LET c == ns[LastChildWith(ns, col)]
           IN  IF c.visits > 0 THEN WinRate(c.wins2, c.visits) ELSE 0],
       ucb_scores |-> [col \in ChildMoves(ns) |-> get_ucb_score(ns, LastChildWith(ns, col))],
       best_move |-> IF best # None THEN ns[best].move ELSE None,
       best_ucb |-> IF best # None THEN get_ucb_score(ns, best) ELSE 0]

\* the `{}` returned for a terminal root
EmptyDict == [col \in {} |-> 0]

\* objects no longer referenced by the caller or by the tree are freed
Collect(heap, ns) ==
  LET used == {1} \cup {ns[k].state : k \in 1 .. Len(ns)}
      top == CHOOSE m \in used : \A q \in used : q <= m
  IN  SubSeq(heap, 1, top)

\* ------------------------------------------------------------ state machine
vars == <<objs, nodes, pc, mode, n_iter, it, root_player, node, temp, result,
          game_over, root0, endedAtRoot, seeded, draws, replay, trace, first,
          copy, call>>

rngVars == <<seeded, draws, replay, trace, first>>

apiVars == <<copy, call>>

searchVars == <<nodes, pc, mode, n_iter, it, root_player, node, temp, result,
                game_over, root0, endedAtRoot, rngVars>>

\* the position the games of the model start from: 37 plies played with
\* make_move from the empty board of Connect4State(); player 2 to move,
\* columns 1, 3 and 5 open, five empty cells
BaseMoves ==
  <<3, 4, 6, 0, 4, 4, 0, 0, 4, 4, 0, 0, 2, 2, 2, 6, 4, 0, 3, 6, 1, 5, 1, 6, 5,
    3, 6, 6, 1, 2, 3, 3, 2, 2, 5, 1, 5>>

RECURSIVE PlayAll(_, _)
PlayAll(s, moves) ==
  IF moves = <<>> \/ ~make_move_ok(s, Head(moves)) THEN s
  ELSE PlayAll(make_move(s, Head(moves)), Tail(moves))

BaseState == PlayAll(Connect4State(EmptyBoard, PLAYER1), BaseMoves)

NoResult == [move |-> None, stats |-> EmptyDict]

NoCall == [op |-> "none", on |-> "state", col |-> None, ret |-> FALSE]

InitCommon ==
  /\ objs = <<BaseState>>
  /\ nodes = <<>>
  /\ pc = "idle"
  /\ mode = "mcts_search"
  /\ n_iter = 0
  /\ it = 0
  /\ root_player = None
  /\ node = None
  /\ temp = None
  /\ result = NoResult
  /\ game_over = FALSE
  /\ root0 = BaseState
  /\ endedAtRoot = 0
  /\ draws = <<>>
  /\ replay = <<>>
  /\ trace = <<>>
  /\ first = <<>>
  /\ copy = None
  /\ call = NoCall

Init == InitCommon /\ seeded = FALSE

InitSeeded == InitCommon /\ seeded = TRUE

\* random.choice(seq) : the index drawn; a reseeded generator repeats its draws
Draw(n) ==
  IF replay # <<>> THEN {((Head(replay) - 1) % n) + 1} ELSE 1 .. n

Drawn(i) ==
  /\ draws' = IF seeded THEN Append(draws, i) ELSE draws
  /\ replay' = IF replay # <<>> THEN Tail(replay) ELSE replay

\* main, mouse click on a legal column (lines 497-503) : animate_drop calls
\* draw_board, whose line 302 reads state.last_move, an attribute no
\* Connect4State has; the AttributeError leaves main() before make_move is
\* reached and the state is as it was
HumanMove(col) ==
  /\ pc = "idle"
  /\ ~game_over
  /\ \E i \in 1 .. Len(get_legal_moves(objs[1])) : get_legal_moves(objs[1])[i] = col
  /\ call' = [op |-> "click", on |-> "state", col |-> None, ret |-> FALSE]
  /\ UNCHANGED <<objs, copy, searchVars>>

\* mcts_search lines 99-103, entered directly or from ai_play_move line 226
Enter(n, m) ==
  /\ mode' = m
  /\ n_iter' = n
  /\ it' = 0
  /\ root0' = objs[1]
  /\ endedAtRoot' = 0
  /\ node' = None
  /\ temp' = None
  /\ call' = NoCall
  /\ UNCHANGED <<game_over, copy>>
  /\ IF is_terminal(objs[1])
     THEN /\ result' = [move |-> None, stats |-> EmptyDict]
          /\ pc' = "returned"
          /\ nodes' = <<>>
          /\ UNCHANGED <<objs, root_player>>
     ELSE LET cl == CloneInto(<<objs[1]>>, 1)
          IN  /\ root_player' = objs[1].current_player
              /\ objs' = cl.heap
              /\ nodes' = <<MCTSNode(cl.heap, cl.id, None, None)>>
              /\ result' = NoResult
              /\ pc' = "loop"

\* a call of mcts_search(state, n_iter=n), as for a hint
MctsSearch(n) ==
  /\ pc = "idle"
  /\ Enter(n, "mcts_search")
  /\ draws' = <<>> /\ replay' = <<>> /\ trace' = <<>> /\ first' = <<>>
  /\ UNCHANGED seeded

\* a call of ai_play_move(state, n_iter=n)
AiPlayMove(n) ==
  /\ pc = "idle"
  /\ Enter(n, "ai_play_move")
  /\ draws' = <<>> /\ replay' = <<>> /\ trace' = <<>> /\ first' = <<>>
  /\ UNCHANGED seeded

\* mcts_search lines 106-119 : selection and expansion of one iteration
Iterate ==
  /\ pc = "loop"
  /\ UNCHANGED apiVars
  /\ it < n_iter
  /\ LET sel == Select(nodes, 1)
     IN  IF sel = Raises
         THEN /\ pc' = "raised"
              /\ UNCHANGED <<objs, nodes, node, draws, replay>>
         ELSE IF ~is_fully_expanded(nodes[sel])
         THEN \E i \in Draw(Len(nodes[sel].untried_moves)) :
                LET move == nodes[sel].untried_moves[i]
                    cl == CloneInto(objs, nodes[sel].state)
                    heap == [cl.heap EXCEPT ![cl.id] = make_move(@, move)]
                    child == MCTSNode(heap, cl.id, sel, move)
                    at == Len(nodes) + 1
                IN  /\ objs' = heap
                    /\ nodes' = Append([nodes EXCEPT
                                  ![sel].untried_moves = ListRemove(@, move),
                                  ![sel].children = Append(@, at)], child)
                    /\ node' = at
                    /\ Drawn(i)
                    /\ pc' = "simulate"
         ELSE /\ node' = sel
              /\ pc' = "simulate"
              /\ UNCHANGED <<objs, nodes, draws, replay>>
  /\ UNCHANGED <<mode, n_iter, it, root_player, temp, result, game_over, root0,
                 endedAtRoot, seeded, trace, first>>

\* variant of the start of rollout that plays on the state passed in
\* (temp_state = state)
RolloutBeginNoClone ==
  /\ pc = "simulate"
  /\ UNCHANGED apiVars
  /\ objs' = objs
  /\ temp' = nodes[node].state
  /\ pc' = "rollout"
  /\ UNCHANGED <<nodes, mode, n_iter, it, root_player, node, result, game_over,
                 root0, endedAtRoot, rngVars>>

\* mcts_search line 122, rollout line 69 : temp_state = state.clone()
RolloutBegin ==
  /\ pc = "simulate"
  /\ UNCHANGED apiVars
  /\ LET cl == CloneInto(objs, nodes[node].state)
     IN  /\ objs' = cl.heap
         /\ temp' = cl.id
  /\ pc' = "rollout"
  /\ UNCHANGED <<nodes, mode, n_iter, it, root_player, node, result, game_over,
                 root0, endedAtRoot, rngVars>>

\* rollout lines 71-74 : one pass of the while loop
RolloutMove ==
  /\ pc = "rollout"
  /\ UNCHANGED apiVars
  /\ ~is_terminal(objs[temp])
  /\ LET legal_moves == get_legal_moves(objs[temp])
     IN  IF Len(legal_moves) = 0
         THEN /\ pc' = "raised"
              /\ UNCHANGED <<objs, draws, replay>>
         ELSE \E i \in Draw(Len(legal_moves)) :
                /\ objs' = [objs EXCEPT ![temp] = make_move(@, legal_moves[i])]
                /\ Drawn(i)
                /\ pc' = "rollout"
  /\ UNCHANGED <<nodes, mode, n_iter, it, root_player, node, temp, result,
                 game_over, root0, endedAtRoot, seeded, trace, first>>

\* rollout lines 76-82 and mcts_search lines 125-128 : reward and backpropagation
Backpropagate ==
  /\ pc = "rollout"
  /\ UNCHANGED apiVars
  /\ is_terminal(objs[temp])
  /\ nodes' = Backpropagation(nodes, node, RolloutReward(objs[temp], root_player))
  /\ objs' = Collect(objs, nodes)
  /\ temp' = None
  /\ it' = it + 1
  /\ endedAtRoot' = IF node = 1 THEN endedAtRoot + 1 ELSE endedAtRoot
  /\ trace' = IF seeded THEN Append(trace, nodes') ELSE trace
  /\ pc' = "loop"
  /\ UNCHANGED <<mode, n_iter, root_player, node, result, game_over, root0,
                 seeded, draws, replay, first>>

\* mcts_search lines 130-148 : the loop is over, statistics and return
Finish ==
  /\ pc = "loop"
  /\ UNCHANGED apiVars
  /\ ~(it < n_iter)
  /\ LET best == most_visited_child(nodes, 1)
     IN  result' = [move |-> IF best # None THEN nodes[best].move ELSE None,
                    stats |-> CollectStats(nodes)]
  /\ pc' = "returned"
  /\ UNCHANGED <<objs, nodes, mode, n_iter, it, root_player, node, temp,
                 game_over, root0, endedAtRoot, rngVars>>

\* variant of the return to the caller in which ai_play_move hands back the
\* move without applying it to the caller's state
ResumeWithoutCommit ==
  /\ pc = "returned"
  /\ UNCHANGED apiVars
  /\ objs' = <<objs[1]>>
  /\ game_over' = IF mode = "ai_play_move" THEN check_game_over(objs[1]) ELSE game_over
  /\ nodes' = <<>>
  /\ pc' = "idle"
  /\ UNCHANGED <<mode, n_iter, it, root_player, node, temp, result, root0,
                 endedAtRoot, rngVars>>

\* the caller goes on: ai_play_move lines 227-229 apply the move, the game
\* loop of main.py calls check_game_over; the tree of the call is garbage
Resume ==
  /\ pc = "returned"
  /\ UNCHANGED apiVars
  /\ LET s == IF mode = "ai_play_move" /\ result.move # None
              THEN make_move(objs[1], result.move)
              ELSE objs[1]
     IN  /\ objs' = <<s>>
         /\ game_over' = IF mode = "ai_play_move" THEN check_game_over(s) ELSE game_over
  /\ nodes' = <<>>
  /\ pc' = "idle"
  /\ UNCHANGED <<mode, n_iter, it, root_player, node, temp, result, root0,
                 endedAtRoot, rngVars>>

\* the caller reseeds the generator with the seed of the call that just
\* returned and calls mcts_search again with the same arguments
Rerun ==
  /\ pc = "returned"
  /\ seeded
  /\ mode = "mcts_search"
  /\ first = <<>>
  /\ first' = <<[result |-> result, trace |-> trace, draws |-> draws, n_iter |-> n_iter]>>
  /\ replay' = draws
  /\ draws' = <<>>
  /\ trace' = <<>>
  /\ Enter(n_iter, "mcts_search")
  /\ UNCHANGED seeded

Next ==
  \/ \E col \in Cols : HumanMove(col)
  \/ \E n \in Budgets : MctsSearch(n)
  \/ \E n \in Budgets : AiPlayMove(n)
  \/ Iterate
  \/ RolloutBegin
  \/ RolloutMove
  \/ Backpropagate
  \/ Finish
  \/ Resume

Spec == Init /\ [][Next]_vars

\* mcts_search is synchronous: once entered, the statements of the call are
\* executed one after the other until it returns or raises; when the caller
\* makes its next call is left open
SpecFair ==
  /\ Init
  /\ [][Next]_vars
  /\ WF_vars(Iterate)
  /\ WF_vars(RolloutBegin)
  /\ WF_vars(RolloutMove)
  /\ WF_vars(Backpropagate)
  /\ WF_vars(Finish)

\* the caller of the seeded runs asks for hints (mcts_search) and lets the
\* engine play (ai_play_move)
NextSeeded ==
  \/ \E n \in SeededBudgets : MctsSearch(n)
  \/ \E n \in SeededBudgets : AiPlayMove(n)
  \/ Iterate
  \/ RolloutBegin
  \/ RolloutMove
  \/ Backpropagate
  \/ Finish
  \/ Resume
  \/ Rerun

SpecSeeded == InitSeeded /\ [][NextSeeded]_vars

\* --------------------------------------------------- simulate_games, one game
\* the budgets of AI_ITER are positive
SimBudgets == 1 .. MaxIter

\* one pass of `while not game_over` : ai_play_move(state, n_iter=AI_ITER[...])
SimulateTurn(n) ==
  /\ ~game_over
  /\ AiPlayMove(n)

NextSim ==
  \/ \E n \in SimBudgets : SimulateTurn(n)
  \/ Iterate
  \/ RolloutBegin
  \/ RolloutMove
  \/ Backpropagate
  \/ Finish
  \/ Resume

\* the loop runs without interruption: while a statement is left it is executed
SpecSim == Init /\ [][NextSim]_vars /\ WF_vars(NextSim)

\* ---------------------------------------------- Connect4State called directly
\* a caller that holds a Connect4State, and possibly a clone() of it, and
\* calls make_move on either with any column; the game starts from
\* Connect4State() or from the recorded position
InitGame ==
  /\ objs \in {<<Connect4State(EmptyBoard, PLAYER1)>>, <<BaseState>>}
  /\ nodes = <<>>
  /\ pc = "idle"
  /\ mode = "mcts_search"
  /\ n_iter = 0
  /\ it = 0
  /\ root_player = None
  /\ node = None
  /\ temp = None
  /\ result = NoResult
  /\ game_over = FALSE
  /\ root0 = BaseState
  /\ endedAtRoot = 0
  /\ seeded = FALSE
  /\ draws = <<>>
  /\ replay = <<>>
  /\ trace = <<>>
  /\ first = <<>>
  /\ copy = None
  /\ call = NoCall

\* the object a reference of the caller points to
Ref(on) == IF on = "copy" THEN copy ELSE 1

\* the pieces added to the position a game started from, the empty board
\* (also after reset() and after the restart of main) or the recorded one
Played(s) ==
  IF PieceCount(s.board) >= Len(BaseMoves) THEN PieceCount(s.board) - Len(BaseMoves)
  ELSE PieceCount(s.board)

\* the caller's state, and its clone if there is one, hold the recorded game
FreePlay ==
  /\ PieceCount(objs[1].board) >= Len(BaseMoves)
  /\ copy # None => PieceCount(objs[copy].board) >= Len(BaseMoves)

\* the direct moves counted against MaxPlies: the recorded game is played to
\* its end on the caller's state, its clone is charged for its own moves
DirectMoves ==
  IF FreePlay
  THEN IF copy = None THEN 0 ELSE Len(objs[copy].move_history)
  ELSE Played(objs[1]) + (IF copy = None THEN 0 ELSE Played(objs[copy]))

\* x.make_move(col) for x the caller's state or its clone
MakeMove(on, col) ==
  /\ on = "copy" => copy # None
  /\ \/ on = "state" /\ FreePlay
     \/ DirectMoves < MaxPlies
  /\ objs' = [objs EXCEPT ![Ref(on)] = make_move(@, col)]
  /\ call' = [op |-> "make_move", on |-> on, col |-> col,
              ret |-> make_move_ok(objs[Ref(on)], col)]
  /\ UNCHANGED <<copy, searchVars>>

\* copy = state.clone()
Clone ==
  /\ copy = None
  /\ LET cl == CloneInto(objs, 1)
     IN  /\ objs' = cl.heap
         /\ copy' = cl.id
  /\ call' = [op |-> "clone", on |-> "state", col |-> None, ret |-> TRUE]
  /\ UNCHANGED searchVars

\* x.reset() for x the caller's state or its clone: the same object, emptied
Reset(on) ==
  /\ on = "copy" => copy # None
  /\ objs' = [objs EXCEPT ![Ref(on)] =
                [board |-> EmptyBoard, move_history |-> <<>>, current_player |-> PLAYER1]]
  /\ call' = [op |-> "reset", on |-> on, col |-> None, ret |-> TRUE]
  /\ UNCHANGED <<copy, searchVars>>

\* main, key R (lines 477-481) : state = Connect4State(); game_over = False
Restart ==
  /\ objs' = [objs EXCEPT ![1] = Connect4State(EmptyBoard, PLAYER1)]
  /\ game_over' = FALSE
  /\ call' = [op |-> "restart", on |-> "state", col |-> None, ret |-> TRUE]
  /\ UNCHANGED <<copy, nodes, pc, mode, n_iter, it, root_player, node, temp,
                 result, root0, endedAtRoot, rngVars>>

NextGame ==
  \/ \E on \in {"state", "copy"} : \E col \in Cols : MakeMove(on, col)
  \/ Clone
  \/ \E on \in {"state", "copy"} : Reset(on)
  \/ Restart

SpecGame == InitGame /\ [][NextGame]_vars

\* ------------------------------------------------- MCTSNode called directly
\* a caller that builds a root node for the recorded position, appends
\* children for the first nc legal moves, sets visits and wins, and calls
\* best_child on the root
UnitTree(nc, rv, vs, ws) ==
  LET legal == get_legal_moves(BaseState)
      heap == <<BaseState>> \o
                [i \in 1 .. nc |-> make_move(clone(BaseState), legal[i])]
      root == [MCTSNode(heap, 1, None, None) EXCEPT
                 !.visits = rv,
                 !.wins2 = ws[1] + ws[2] + (IF nc = 3 THEN ws[3] ELSE 0),
                 !.children = [i \in 1 .. nc |-> i + 1],
                 !.untried_moves = SubSeq(legal, nc + 1, Len(legal))]
  IN  [heap |-> heap,
       nodes |-> <<root>> \o
                   [i \in 1 .. nc |->
                      [MCTSNode(heap, i + 1, 1, legal[i]) EXCEPT
                         !.visits = vs[i], !.wins2 = ws[i]]]]

InitUnit ==
  /\ \E nc \in 2 .. 3 : \E rv \in 0 .. MaxVisits :
       \E vs \in [1 .. nc -> 0 .. MaxVisits] : \E ws \in [1 .. nc -> 0 .. 2 * MaxVisits] :
         /\ vs[1] + vs[2] + (IF nc = 3 THEN vs[3] ELSE 0) <= rv
         /\ \A i \in 1 .. nc : ws[i] <= 2 * vs[i]
         /\ objs = UnitTree(nc, rv, vs, ws).heap
         /\ nodes = UnitTree(nc, rv, vs, ws).nodes
  /\ pc = "idle"
  /\ mode = "best_child"
  /\ n_iter = 0
  /\ it = 0
  /\ root_player = BaseState.current_player
  /\ node = None
  /\ temp = None
  /\ result = NoResult
  /\ game_over = FALSE
  /\ root0 = BaseState
  /\ endedAtRoot = 0
  /\ seeded = FALSE
  /\ draws = <<>>
  /\ replay = <<>>
  /\ trace = <<>>
  /\ first = <<>>
  /\ copy = None
  /\ call = NoCall

\* node = root.best_child()
BestChild ==
  /\ pc = "idle"
  /\ mode = "best_child"
  /\ IF best_child(nodes, 1) = Raises
     THEN pc' = "raised" /\ UNCHANGED node
     ELSE pc' = "returned" /\ node' = best_child(nodes, 1)
  /\ UNCHANGED <<objs, nodes, mode, n_iter, it, root_player, temp, result,
                 game_over, root0, endedAtRoot, rngVars, apiVars>>

NextUnit == BestChild

SpecUnit == InitUnit /\ [][NextUnit]_vars

\* ------------------------------------------------------------------ claims
\* a call of mcts_search is running or has just returned
InCall == pc \in {"loop", "simulate", "rollout", "returned"}

\* the legal columns with which the player to move completes four in a row
ImmediateWins(s) ==
  {col \in Cols : /\ s.board[0][col] = EMPTY
                  /\ check_winner(make_move(s, col)) = s.current_player}

\* the columns with which the opponent would complete four in a row if it
\* were to move
OpponentWins(s) ==
  ImmediateWins([s EXCEPT !.current_player = Other(s.current_player)])

\* the state the call was entered with has a winner or a full board
RootTerminal ==
  \/ check_winner(root0) # None
  \/ \A col \in Cols : root0.board[0][col] # EMPTY

LegalSet(s) == {col \in Cols : s.board[0][col] = EMPTY}

RootChildren == {nodes[1].children[i] : i \in 1 .. Len(nodes[1].children)}

RECURSIVE SumVisits(_)
SumVisits(ks) ==
  IF ks = {} THEN 0
  ELSE LET k == CHOOSE x \in ks : TRUE
       IN  nodes[k].visits + SumVisits(ks \ {k})

\* C1: during and after a call of mcts_search the caller's root_state has the
\* board and the current player it had when the call was entered; the states
\* of the tree nodes and rollout's temp_state are objects other than the
\* caller's, and temp_state is no node's state (every make_move goes to a clone).
C1_RootStateUnchanged ==
  InCall =>
    /\ objs[1].board = root0.board
    /\ objs[1].current_player = root0.current_player
    /\ \A k \in 1 .. Len(nodes) : nodes[k].state # 1
    /\ temp # None => (temp # 1 /\ \A k \in 1 .. Len(nodes) : nodes[k].state # temp)

\* an expansion and a rollout have both applied moves, after a completed iteration
C1_Witness ==
  /\ pc = "rollout"
  /\ it >= 1
  /\ objs[temp].board # objs[nodes[node].state].board
  /\ objs[nodes[node].state].board # objs[1].board

\* C2: a call on a terminal root returns (None, {}) with no tree node created
\* and no iteration run.
C2_TerminalRoot ==
  (pc = "returned" /\ RootTerminal) =>
    /\ result.move = None
    /\ DOMAIN result.stats = {}
    /\ nodes = <<>>
    /\ it = 0

\* scenario D: the call returned on a full board without four in a row
C2_Witness ==
  /\ pc = "returned"
  /\ is_full(root0)
  /\ check_winner(root0) = None
  /\ n_iter >= 1
  /\ result.move = None

\* C3: on a non-terminal root with n_iter >= 1 the returned move is not None,
\* is a column index and is a legal move of the root state.
C3_LegalMove ==
  (pc = "returned" /\ ~RootTerminal /\ n_iter >= 1) =>
    /\ result.move # None
    /\ result.move \in Cols
    /\ result.move \in LegalSet(objs[1])
    /\ \E i \in 1 .. Len(get_legal_moves(root0)) : get_legal_moves(root0)[i] = result.move

\* a move was returned on a board that has full columns
C3_Witness ==
  /\ pc = "returned"
  /\ ~RootTerminal
  /\ n_iter >= 1
  /\ result.move \in LegalSet(root0)
  /\ LegalSet(root0) # Cols

\* C4: after the loop on a non-terminal root the root has n_iter visits and
\* its children together have n_iter visits minus the iterations that ended
\* at the root.
C4_VisitCounts ==
  (pc = "loop" /\ ~(it < n_iter) /\ n_iter >= 0) =>
    /\ nodes[1].visits = n_iter
    /\ SumVisits(RootChildren) = n_iter - endedAtRoot

\* the loop is over after at least two iterations that went through two children
C4_Witness ==
  /\ pc = "loop"
  /\ it = n_iter
  /\ n_iter >= 2
  /\ Cardinality(RootChildren) >= 2
  /\ nodes[1].visits = n_iter

\* C5: the returned move is the move of a root child that no other root child
\* out-visits, and stats['best_move'] is the returned move.
C5_MostVisited ==
  (pc = "returned" /\ nodes # <<>> /\ RootChildren # {}) =>
    /\ \E k \in RootChildren :
         /\ nodes[k].move = result.move
         /\ \A j \in RootChildren : nodes[j].visits <= nodes[k].visits
    /\ result.stats.best_move = result.move

\* the chosen child out-visits another child that has the better win rate
C5_Witness ==
  /\ pc = "returned"
  /\ nodes # <<>>
  /\ \E k, j \in RootChildren :
       /\ nodes[k].move = result.move
       /\ nodes[j].visits < nodes[k].visits
       /\ nodes[j].wins2 * nodes[k].visits > nodes[k].wins2 * nodes[j].visits

\* C6: in the returned statistics every win rate is in [0,1] (0 <= w <= n for
\* every root child), every visit count is a natural number, and every column
\* reported with a visit is the move of a root child.
C6_StatsRanges ==
  (pc = "returned" /\ nodes # <<>>) =>
    /\ \A col \in DOMAIN result.stats.win_rates :
         /\ result.stats.win_rates[col] >= 0
         /\ result.stats.win_rates[col] <= 1000000
    /\ \A k \in RootChildren :
         /\ 0 <= nodes[k].wins2
         /\ nodes[k].wins2 <= 2 * nodes[k].visits
    /\ \A col \in DOMAIN result.stats.visits :
         /\ result.stats.visits[col] \in Nat
         /\ result.stats.visits[col] >= 1 =>
              \E k \in RootChildren :
                nodes[k].move = col /\ nodes[k].visits = result.stats.visits[col]

\* statistics with a lost, a drawn-or-mixed and a won child
C6_Witness ==
  /\ pc = "returned"
  /\ nodes # <<>>
  /\ \E a, b \in DOMAIN result.stats.win_rates :
       /\ result.stats.win_rates[a] = 0
       /\ result.stats.win_rates[b] > 0
       /\ result.stats.visits[a] >= 1

\* C7: when the player to move has an immediately winning column, the move
\* returned for n_iter >= 1 is an immediately winning column.
C7_NeverMissesWin ==
  (pc = "returned" /\ ~RootTerminal /\ n_iter >= 1 /\ ImmediateWins(root0) # {}) =>
    result.move \in ImmediateWins(root0)

\* C8: when the mover has no immediate win and the opponent has exactly one
\* immediately winning column, the move returned for n_iter >= 1 leaves the
\* opponent without that winning reply.
C8_BlocksForcedLoss ==
  (/\ pc = "returned"
   /\ ~RootTerminal
   /\ n_iter >= 1
   /\ ImmediateWins(root0) = {}
   /\ Cardinality(OpponentWins(root0)) = 1) =>
    /\ result.move # None
    /\ OpponentWins(root0) \cap ImmediateWins(make_move(root0, result.move)) = {}

\* C9: a call with n_iter <= 0 on a non-terminal root is rejected before the
\* root node exists and returns no (move, statistics) pair.
C9_RejectsNonPositiveBudget ==
  (pc # "idle" /\ n_iter <= 0 /\ ~RootTerminal) =>
    /\ pc = "raised"
    /\ nodes = <<>>

\* C10: a second call with the same root state, the same n_iter and the same
\* draws goes through the trees of the first call at every iteration boundary
\* and returns the same move and statistics.
C10_Determinism ==
  first # <<>> =>
    /\ n_iter = first[1].n_iter
    /\ (pc = "loop" /\ it >= 1) =>
         /\ it <= Len(first[1].trace)
         /\ nodes = first[1].trace[it]
    /\ pc = "returned" =>
         /\ result = first[1].result
         /\ trace = first[1].trace
         /\ draws = first[1].draws

\* the second of two equally seeded calls returned a move after several draws
C10_Witness ==
  /\ first # <<>>
  /\ pc = "returned"
  /\ n_iter >= 2
  /\ result.move # None
  /\ Len(draws) >= 3
  /\ Len(nodes) >= 3

\* the lowest empty row of a column that has one
LowestEmptyRow(board, col) ==
  CHOOSE r \in Rows :
    board[r][col] = EMPTY /\ \A q \in Rows : (q > r) => board[q][col] # EMPTY

\* an expansion step: the move of the new child is legal in the state of
\* its parent and make_move adds one piece to the clone and switches the player
C11_ExpansionLegal ==
  (pc = "loop" /\ pc' = "simulate" /\ Len(nodes') > Len(nodes)) =>
    LET child == nodes'[Len(nodes')]
        before == objs[nodes[child.parent].state]
    IN  /\ before.board[0][child.move] = EMPTY
        /\ PieceCount(objs'[child.state].board) = PieceCount(before.board) + 1
        /\ objs'[child.state].current_player # before.current_player

\* a rollout step: one piece of the mover lands in a column whose top is empty
C11_RolloutLegal ==
  (pc = "rollout" /\ pc' = "rollout") =>
    /\ PieceCount(objs'[temp].board) = PieceCount(objs[temp].board) + 1
    /\ \E col \in Cols :
         /\ objs[temp].board[0][col] = EMPTY
         /\ objs'[temp].board =
              [objs[temp].board EXCEPT
                 ![LowestEmptyRow(objs[temp].board, col)][col] =
                    objs[temp].current_player]

\* C11: every make_move of an expansion and of a rollout goes to a column that
\* is legal in the state it is applied to and adds one piece (returns True);
\* no step of the search raises (random.choice never sees an empty list).
C11_OnlyLegalMoves ==
  [][C11_ExpansionLegal /\ C11_RolloutLegal /\ pc' # "raised"]_vars

\* a rollout has applied two moves below a node created by an expansion
C11_Witness ==
  /\ pc = "rollout"
  /\ Len(nodes) >= 3
  /\ Len(objs[temp].move_history) >= 2

\* C12: ai_play_move changes the caller's state by the returned move only: on
\* a non-terminal state with n_iter >= 1 one piece of the mover is added in
\* the returned column at its lowest empty row and the player is switched; on
\* a terminal state the move is None and board and player stay.
C12_CommitsOnlyChosenMove ==
  [][(pc = "returned" /\ mode = "ai_play_move" /\ pc' = "idle") =>
       IF RootTerminal
       THEN /\ result.move = None
            /\ objs'[1].board = root0.board
            /\ objs'[1].current_player = root0.current_player
       ELSE (n_iter >= 1) =>
            /\ result.move \in Cols
            /\ root0.board[0][result.move] = EMPTY
            /\ objs'[1].board =
                 [root0.board EXCEPT
                    ![LowestEmptyRow(root0.board, result.move)][result.move] =
                       root0.current_player]
            /\ objs'[1].current_player = Other(root0.current_player)]_vars

\* ai_play_move has returned after three iterations and its move, dropped on
\* a column with two empty cells, is the only change of the caller's board
C12_Witness ==
  /\ pc = "idle"
  /\ mode = "ai_play_move"
  /\ n_iter >= 3
  /\ result.move \in Cols
  /\ root0.board[1][result.move] = EMPTY
  /\ objs[1].board = [root0.board EXCEPT ![1][result.move] = root0.current_player]
  /\ objs[1].current_player # root0.current_player

\* C13: make_move on a column whose top cell is taken returns False and
\* leaves board, current player and move_history as they were; on any other
\* column it returns True and the board changes in one cell only, the lowest
\* empty cell of the column, which gets the piece of the player to move.
C13_MakeMoveStep ==
  (call'.op = "make_move") =>
    LET before == objs[Ref(call'.on)]
        after == objs'[Ref(call'.on)]
        col == call'.col
    IN  IF before.board[0][col] # EMPTY
        THEN /\ call'.ret = FALSE
             /\ after.board = before.board
             /\ after.current_player = before.current_player
             /\ after.move_history = before.move_history
        ELSE /\ call'.ret = TRUE
             /\ after.board =
                  [before.board EXCEPT
                     ![LowestEmptyRow(before.board, col)][col] = before.current_player]
             /\ PieceCount(after.board) = PieceCount(before.board) + 1

C13_MakeMoveFailsOnFullColumn == [][C13_MakeMoveStep]_vars

\* make_move has just failed on a full column of a board that is not full
C13_Witness ==
  /\ call.op = "make_move"
  /\ call.ret = FALSE
  /\ objs[Ref(call.on)].board[0][call.col] # EMPTY
  /\ \E c \in Cols : objs[Ref(call.on)].board[0][c] = EMPTY

PiecesOf(board, player) ==
  Cardinality({rc \in Rows \X Cols : board[rc[1]][rc[2]] = player})

\* a successful direct make_move hands the turn to the other player
C14_TurnPasses ==
  (call'.op = "make_move" /\ call'.ret) =>
    /\ objs[Ref(call'.on)].current_player \in {PLAYER1, PLAYER2}
    /\ objs'[Ref(call'.on)].current_player \in {PLAYER1, PLAYER2}
    /\ objs'[Ref(call'.on)].current_player # objs[Ref(call'.on)].current_player

\* player 1 has as many pieces as player 2 when player 1 is to move and one
\* more when player 2 is to move
C14_Balance ==
  \A i \in 1 .. Len(objs) :
    PiecesOf(objs[i].board, PLAYER1) - PiecesOf(objs[i].board, PLAYER2) =
      (IF objs[i].current_player = PLAYER1 THEN 0 ELSE 1)

\* C14: the current player alternates: every successful make_move makes the
\* other player the current player, and every state reached from the empty
\* board (player 1 starts) has #player-1 pieces - #player-2 pieces = 0 when
\* player 1 is to move and = 1 when player 2 is to move.
C14_PlayersAlternate == [][C14_TurnPasses]_vars /\ []C14_Balance

\* a game from the empty board in which player 2 is to move after three
\* successful make_move calls, and one from the recorded position with player
\* 1 to move
C14_Witness ==
  /\ call.op = "make_move"
  /\ call.ret
  /\ \/ PieceCount(objs[1].board) = 3 /\ objs[1].current_player = PLAYER2
     \/ PieceCount(objs[1].board) = Len(BaseMoves) + 3 /\ objs[1].current_player = PLAYER1

\* C15: clone() returns another object with the board and the current player
\* of the original; afterwards a make_move on the clone leaves the original
\* as it was and a make_move on the original leaves the clone as it was.
C15_CloneStep ==
  /\ (call'.op = "clone" /\ copy = None) =>
       /\ copy' # 1
       /\ objs'[copy'].board = objs[1].board
       /\ objs'[copy'].current_player = objs[1].current_player
       /\ objs'[1] = objs[1]
  /\ (call'.op = "make_move" /\ copy # None /\ call'.on = "copy") =>
       objs'[1] = objs[1]
  /\ (call'.op = "make_move" /\ copy # None /\ call'.on = "state") =>
       objs'[copy] = objs[copy]

C15_CloneIndependent == [][C15_CloneStep]_vars

\* original and clone have both been moved since the clone was made
C15_Witness ==
  /\ copy # None
  /\ objs[copy].move_history # <<>>
  /\ PieceCount(objs[1].board) > PieceCount(objs[copy].board)
  /\ objs[copy].board[ROWS - 1] # objs[1].board[ROWS - 1]

\* a state with a winner or without an empty cell
Terminal(s) ==
  \/ check_winner(s) # None
  \/ \A rc \in Rows \X Cols : s.board[rc[1]][rc[2]] # EMPTY

\* C16: a tree node whose state is terminal (a winner exists or the board is
\* full) never gets a child: expansion happens at non-terminal nodes only.
C16_TerminalNeverExpanded ==
  \A k \in 1 .. Len(nodes) :
    Terminal(objs[nodes[k].state]) => nodes[k].children = <<>>

\* the backpropagation step of an iteration: every node from the simulated
\* node up to the root gains one visit and the reward of the iteration, every
\* other node keeps its visits and wins
C17_BackpropagationStep ==
  (pc = "rollout" /\ pc' = "loop") =>
    LET chain == ParentChain(nodes, node)
        reward2 == RolloutReward(objs[temp], root_player)
    IN  /\ Len(nodes') = Len(nodes)
        /\ node \in chain /\ 1 \in chain
        /\ \A j \in 1 .. Len(nodes) :
             IF j \in chain
             THEN /\ nodes'[j].visits = nodes[j].visits + 1
                  /\ nodes'[j].wins2 = nodes[j].wins2 + reward2
             ELSE /\ nodes'[j].visits = nodes[j].visits
                  /\ nodes'[j].wins2 = nodes[j].wins2

\* C17: backpropagation adds exactly 1 to visits and the iteration's reward to
\* wins at every node on the parent chain from the simulated node up to and
\* including the root, and changes visits and wins of no node off that chain.
C17_BackpropagationOnChainOnly == [][C17_BackpropagationStep]_vars

\* an iteration has just backpropagated a win or a draw from a node two levels
\* below the root while the root has a child off the chain
C17_Witness ==
  /\ pc = "loop"
  /\ it >= 1
  /\ node # None
  /\ nodes[node].parent \notin {None, 1}
  /\ nodes[node].wins2 >= 1
  /\ Len(nodes[1].children) >= 2

\* the return of rollout(node.state, root_player): temp_state is terminal and
\* extends the state passed in; the reward credited to the simulated node is 1.0
\* (2 halves) exactly for a win of root_player, 0.0 exactly for a win of the
\* opponent, 0.5 exactly without a winner
C18_RolloutReturn ==
  (pc = "rollout" /\ pc' = "loop") =>
    LET start == objs[nodes[node].state]
        final == objs[temp]
        winner == check_winner(final)
        reward2 == nodes'[node].wins2 - nodes[node].wins2
    IN  /\ Terminal(final)
        /\ \A rc \in Rows \X Cols :
             start.board[rc[1]][rc[2]] # EMPTY =>
               final.board[rc[1]][rc[2]] = start.board[rc[1]][rc[2]]
        /\ reward2 \in {0, 1, 2}
        /\ (reward2 = 2) <=> (winner = root_player)
        /\ (reward2 = 0) <=> (winner = Other(root_player))
        /\ (reward2 = 1) <=> (winner = None)

\* rollout works on its clone: the state passed in is the same before and
\* after every step between the call of rollout and the backpropagation
C18_RolloutFrame ==
  (pc \in {"simulate", "rollout"}) =>
    /\ nodes'[node].state = nodes[node].state
    /\ objs'[nodes[node].state] = objs[nodes[node].state]

\* C18: rollout(state, root_player) returns 1.0 exactly when the terminal
\* state it reaches is won by root_player, 0.0 exactly when it is won by the
\* opponent and 0.5 exactly when it has no winner, whichever player is to move
\* in the start state; the state passed in stays unchanged.
C18_RolloutReward == [][C18_RolloutReturn /\ C18_RolloutFrame]_vars

\* a rollout that started with the opponent of root_player to move has
\* returned 1.0 after playing at least one move (the start state was not
\* terminal), and the tree also holds a node credited with 0.0
C18_Witness ==
  /\ pc = "loop"
  /\ it >= 2
  /\ node # None
  /\ objs[nodes[node].state].current_player # root_player
  /\ ~Terminal(objs[nodes[node].state])
  /\ nodes[node].visits = 1
  /\ nodes[node].wins2 = 2
  /\ \E k \in 1 .. Len(nodes) : nodes[k].visits = 1 /\ nodes[k].wins2 = 0

EmptyCells(s) == ROWS * COLS - PieceCount(s.board)

\* the moves of a running rollout (temp_state starts with an empty
\* move_history) are at most the empty cells of the state it started from
C19_RolloutBounded ==
  (pc = "rollout") =>
    Len(objs[temp].move_history) <= EmptyCells(objs[nodes[node].state])

\* children are created after their parents, so a descent through children
\* visits each node at most once
C19_DescentFinite ==
  \A k \in 1 .. Len(nodes) :
    \A i \in 1 .. Len(nodes[k].children) :
      /\ nodes[k].children[i] > k
      /\ nodes[k].children[i] <= Len(nodes)

\* a search that entered the loop returns with exactly n_iter iterations done
\* (the loop of a negative budget has none), one with a terminal root with none
C19_ExactIterations ==
  (pc = "returned") =>
    IF RootTerminal THEN it = 0
    ELSE it = (IF n_iter >= 0 THEN n_iter ELSE 0)

\* C19 as stated: for every root state the search returns after exactly n_iter
\* iterations (n_iter a number of iterations, so not negative). A terminal
\* root returns at mcts_search lines 99-100 before the loop, with none done.
C19_ExactlyNIterForEveryRoot ==
  (pc = "returned" /\ n_iter >= 0) => it = n_iter

\* C19, amended: mcts_search and rollout run to completion: a call that has
\* been entered returns; no step raises; each rollout makes at most as many
\* moves as its start state has empty cells; each selection descent is
\* finite; the search returns after exactly n_iter iterations when the root
\* is not terminal, and without any iteration when the root is terminal.
C19_RunsToCompletion ==
  /\ (pc \in {"loop", "simulate", "rollout"}) ~> (pc = "returned")
  /\ [](pc # "raised")
  /\ []C19_RolloutBounded
  /\ []C19_DescentFinite
  /\ []C19_ExactIterations

\* a search of three or more iterations on a non-terminal root has returned
\* with a tree that reaches two levels below the root
C19_Witness ==
  /\ pc = "returned"
  /\ ~RootTerminal
  /\ n_iter >= 3
  /\ it = n_iter
  /\ \E k \in 1 .. Len(nodes) : nodes[k].parent \notin {None, 1}

\* C20: best_child called on a node that has a child with zero visits does
\* not fail and returns a child with zero visits (its score counts as infinite).
C20_ZeroVisitChildFirst ==
  (/\ mode = "best_child"
   /\ pc # "idle"
   /\ \E i \in 1 .. Len(nodes[1].children) : nodes[nodes[1].children[i]].visits = 0) =>
    /\ pc = "returned"
    /\ \E i \in 1 .. Len(nodes[1].children) : nodes[1].children[i] = node
    /\ nodes[node].visits = 0

\* several children of node k share the maximal visit count
TiedMostVisited(ns, k) ==
  \E i, j \in 1 .. Len(ns[k].children) :
    /\ i # j
    /\ ns[ns[k].children[i]].visits = ns[ns[k].children[j]].visits
    /\ \A h \in 1 .. Len(ns[k].children) :
         ns[ns[k].children[h]].visits <= ns[ns[k].children[i]].visits

\* several children of node k share the maximal UCT score
TiedBestChild(ns, k) ==
  /\ ns[k].visits > 0
  /\ \A h \in 1 .. Len(ns[k].children) : ns[ns[k].children[h]].visits > 0
  /\ \E i, j \in 1 .. Len(ns[k].children) :
       LET score(h) == UctScore(ns[ns[k].children[h]].wins2,
                                ns[ns[k].children[h]].visits, ns[k].visits)
       IN  /\ i # j
           /\ score(i) = score(j)
           /\ \A h \in 1 .. Len(ns[k].children) : score(h) <= score(i)

\* a tie at the root is resolved by a draw from the random number generator:
\* at the end of the search for the most visited child, in the selection for
\* the best child (besides the draw of an expansion in the same iteration)
C21_TieStep ==
  /\ (pc = "loop" /\ pc' = "returned" /\ TiedMostVisited(nodes, 1)) =>
       Len(draws') > Len(draws)
  /\ (/\ pc = "loop" /\ pc' = "simulate"
      /\ nodes[1].untried_moves = <<>>
      /\ TiedBestChild(nodes, 1)) =>
       Len(draws') > Len(draws) + (IF Len(nodes') > Len(nodes) THEN 1 ELSE 0)

\* C21: ties are broken at random: when several children share the maximal
\* visit count (most_visited_child) or the maximal UCT score (best_child),
\* the choice among them is made through the random number generator.
C21_TiesBrokenAtRandom == [][C21_TieStep]_vars

\* C22: the statistics returned by mcts_search describe exactly the root's
\* direct children at the final tree: 'visits', 'win_rates' and 'ucb_scores'
\* each have the moves of the root's children as keys, no other column
\* appears, and stats['visits'][m] is the visit count of the child for move m.
C22_StatsAreRootChildren ==
  (pc = "returned" /\ nodes # <<>>) =>
    LET moves == {nodes[k].move : k \in RootChildren}
    IN  /\ DOMAIN result.stats.visits = moves
        /\ DOMAIN result.stats.win_rates = moves
        /\ DOMAIN result.stats.ucb_scores = moves
        /\ \A k \in RootChildren :
             result.stats.visits[nodes[k].move] = nodes[k].visits
        /\ \A col \in Cols :
             (\A k \in RootChildren : nodes[k].move # col) =>
               col \notin DOMAIN result.stats.visits

\* a search has returned statistics for its two root children while a third
\* legal column has no child and no entry
C22_Witness ==
  /\ pc = "returned"
  /\ nodes # <<>>
  /\ Cardinality(RootChildren) = 2
  /\ nodes[1].untried_moves # <<>>
  /\ Cardinality(DOMAIN result.stats.visits) = 2
  /\ \A col \in DOMAIN result.stats.visits : result.stats.visits[col] = 1

\* C23: at the start of every iteration every non-root node has visits >= 1
\* and every node with children has visits >= 1, so the selection never
\* evaluates best_child on a zero-visit child or a zero-visit parent and no
\* call raises.
C23_VisitedBeforeSelection ==
  /\ pc # "raised"
  /\ (pc = "loop") =>
       /\ \A k \in 2 .. Len(nodes) : nodes[k].visits >= 1
       /\ \A k \in 1 .. Len(nodes) :
            nodes[k].children # <<>> => nodes[k].visits >= 1
       /\ Select(nodes, 1) # Raises

\* an iteration is about to start whose selection calls best_child at the
\* root, on two or more children, and stops at a child that already has a child
C23_Witness ==
  /\ pc = "loop"
  /\ it < n_iter
  /\ nodes[1].untried_moves = <<>>
  /\ Len(nodes[1].children) >= 2
  /\ LET b == best_child(nodes, 1)
     IN  /\ b # Raises
         /\ nodes[b].children # <<>>

\* the reward (doubled) of a state's own outcome for the root player
OwnReward2(s) ==
  IF check_winner(s) = root_player THEN 2
  ELSE IF check_winner(s) = None THEN 1
  ELSE 0

\* C24: at every iteration boundary a tree node whose state is terminal has
\* wins = visits * r, r being 1.0, 0.0 or 0.5 as its state is won by the
\* root player, won by the opponent, or drawn.
C24_TerminalNodeWins ==
  (pc = "loop") =>
    \A k \in 1 .. Len(nodes) :
      Terminal(objs[nodes[k].state]) =>
        nodes[k].wins2 = nodes[k].visits * OwnReward2(objs[nodes[k].state])

SeqToSet(seq) == {seq[i] : i \in 1 .. Len(seq)}

NoDuplicates(seq) ==
  \A i, j \in 1 .. Len(seq) : (i # j) => seq[i] # seq[j]

\* C25: at every iteration boundary, for every node, the moves of its
\* children and its untried_moves have no duplicates, are disjoint and
\* together are the legal moves of the node's state (the columns whose top
\* cell is empty); each child's state is its parent's state with the child's
\* move applied once.
C25_MovesPartition ==
  (pc = "loop") =>
    \A k \in 1 .. Len(nodes) :
      LET childMoves == [i \in 1 .. Len(nodes[k].children) |->
                           nodes[nodes[k].children[i]].move]
          here == objs[nodes[k].state]
      IN  /\ NoDuplicates(childMoves)
          /\ NoDuplicates(nodes[k].untried_moves)
          /\ SeqToSet(childMoves) \cap SeqToSet(nodes[k].untried_moves) = {}
          /\ SeqToSet(childMoves) \cup SeqToSet(nodes[k].untried_moves) = LegalSet(here)
          /\ \A i \in 1 .. Len(nodes[k].children) :
               LET c == nodes[nodes[k].children[i]]
               IN  /\ c.parent = k
                   /\ objs[c.state].board =
                        [here.board EXCEPT
                           ![LowestEmptyRow(here.board, c.move)][c.move] =
                              here.current_player]
                   /\ objs[c.state].current_player = Other(here.current_player)

\* an iteration boundary with a root child that has one child and untried
\* moves left, under a fully expanded root
C25_Witness ==
  /\ pc = "loop"
  /\ it >= 3
  /\ nodes[1].untried_moves = <<>>
  /\ \E k \in 2 .. Len(nodes) :
       /\ Len(nodes[k].children) = 1
       /\ nodes[k].untried_moves # <<>>

\* the sum of visits, or of wins (doubled), over the nodes listed in ch
RECURSIVE SumOver(_, _, _)
SumOver(ns, ch, field) ==
  IF ch = <<>> THEN 0
  ELSE (IF field = "visits" THEN ns[Head(ch)].visits ELSE ns[Head(ch)].wins2)
       + SumOver(ns, Tail(ch), field)

\* C26: at every iteration boundary the root's visits are the sum of its
\* children's visits, every other node with a child has visits = 1 + the sum
\* of its children's visits, and every node has wins >= the sum of its
\* children's wins.
C26_VisitConservation ==
  (pc = "loop") =>
    \A k \in 1 .. Len(nodes) :
      /\ (k = 1) =>
           nodes[k].visits = SumOver(nodes, nodes[k].children, "visits")
      /\ (k # 1 /\ nodes[k].children # <<>>) =>
           nodes[k].visits = 1 + SumOver(nodes, nodes[k].children, "visits")
      /\ nodes[k].wins2 >= SumOver(nodes, nodes[k].children, "wins")

\* an iteration boundary with a root child that has a child and whose first
\* visit earned a reward of its own
C26_Witness ==
  /\ pc = "loop"
  /\ it >= 3
  /\ \E k \in 2 .. Len(nodes) :
       /\ nodes[k].children # <<>>
       /\ nodes[k].visits >= 2
       /\ nodes[k].wins2 > SumOver(nodes, nodes[k].children, "wins")

\* a step of a running search leaves every node that exists before the step
\* with the same state object, and that object with the same board and
\* current player
C27_SnapshotStep ==
  (pc \in {"loop", "simulate", "rollout"}) =>
    \A k \in 1 .. Len(nodes) :
      /\ Len(nodes') >= k
      /\ nodes'[k].state = nodes[k].state
      /\ objs'[nodes[k].state].board = objs[nodes[k].state].board
      /\ objs'[nodes[k].state].current_player = objs[nodes[k].state].current_player

\* C27: the state stored in a tree node is never changed after the node is
\* created: through all later selection, expansion, rollout and
\* backpropagation steps its board and current player stay as they were.
C27_NodeStateFrozen == [][C27_SnapshotStep]_vars

\* a rollout has played two moves from a root child that is not terminal,
\* whose stored state is still one ply after the root's
C27_Witness ==
  /\ pc = "rollout"
  /\ node # None
  /\ nodes[node].parent = 1
  /\ Len(objs[temp].move_history) >= 2
  /\ PieceCount(objs[nodes[node].state].board) = PieceCount(root0.board) + 1
  /\ PieceCount(objs[temp].board) = PieceCount(root0.board) + 3

\* no piece lies above an empty cell
Stacked(board) ==
  \A col \in Cols : \A r \in Rows :
    (board[r][col] # EMPTY) =>
      \A q \in Rows : (q > r) => board[q][col] # EMPTY

\* C28: in every state made by make_move from the empty board the pieces of
\* each column are stacked from the bottom row without a gap, make_move(col)
\* returns True exactly for the columns of get_legal_moves(), and is_full()
\* holds exactly when all ROWS x COLS cells are occupied.
C28_Stacked ==
  \A i \in 1 .. Len(objs) :
    /\ Stacked(objs[i].board)
    /\ \A col \in Cols :
         make_move_ok(objs[i], col) <=> (col \in SeqToSet(get_legal_moves(objs[i])))
    /\ is_full(objs[i]) <=> (PieceCount(objs[i].board) = ROWS * COLS)

\* make_move has just been refused on a board filled to the last cell
C28_Witness ==
  /\ call.op = "make_move"
  /\ call.ret = FALSE
  /\ call.on = "state"
  /\ is_full(objs[1])
  /\ PieceCount(objs[1].board) = ROWS * COLS
  /\ get_legal_moves(objs[1]) = <<>>

\* player p has four in a row somewhere on the board, in any direction
HasFour(board, p) ==
  \E r \in Rows : \E c \in Cols : \E d \in {<<0, 1>>, <<1, 0>>, <<1, 1>>, <<1, 0 - 1>>} :
    \A i \in 0 .. 3 :
      /\ r + i * d[1] \in Rows
      /\ c + i * d[2] \in Cols
      /\ board[r + i * d[1]][c + i * d[2]] = p

\* the states of the recorded game, from the empty board to the position the
\* model starts from
BasePrefixStates ==
  [n \in 0 .. Len(BaseMoves) |->
     PlayAll(Connect4State(EmptyBoard, PLAYER1), SubSeq(BaseMoves, 1, n))]

\* at most one player has four in a row, a player who has is the one who
\* moved last, and check_winner names exactly that player
OneWinner(s) ==
  /\ ~(HasFour(s.board, PLAYER1) /\ HasFour(s.board, PLAYER2))
  /\ \A p \in {PLAYER1, PLAYER2} :
       /\ HasFour(s.board, p) =>
            /\ s.move_history # <<>>
            /\ s.move_history[Len(s.move_history)][3] = p
            /\ s.current_player = Other(p)
       /\ (check_winner(s) = p) <=> HasFour(s.board, p)

\* C29: in every state of a game played from the empty board with make_move
\* applied to non-terminal states only, at most one player has four in a row
\* and it is the player who moved last, so check_winner returns that player
\* whatever the order of its scans.
C29_OneWinner ==
  /\ OneWinner(objs[1])
  /\ (pc = "idle" /\ result = NoResult /\ objs[1] = BaseState) =>
       \A n \in 0 .. Len(BaseMoves) :
         /\ OneWinner(BasePrefixStates[n])
         /\ (n < Len(BaseMoves)) => ~Terminal(BasePrefixStates[n])

\* the game has ended with four in a row for the player who just moved, two
\* or more plies after the recorded position
C29_Witness ==
  /\ game_over
  /\ check_winner(objs[1]) # None
  /\ HasFour(objs[1].board, Other(objs[1].current_player))
  /\ PieceCount(objs[1].board) >= Len(BaseMoves) + 2
  /\ PieceCount(objs[1].board) < ROWS * COLS

\* the return of an ai_play_move that was called on a non-terminal state: the
\* move is a column, the caller's board has one piece more, and game_over is
\* what check_game_over says about the new state
C30_TurnStep ==
  (pc = "returned" /\ pc' = "idle" /\ mode = "ai_play_move" /\ ~RootTerminal) =>
    /\ result.move \in Cols
    /\ PieceCount(objs'[1].board) = PieceCount(root0.board) + 1
    /\ game_over' = Terminal(objs'[1])

\* C30: an AI-versus-AI game ends: with positive budgets every ai_play_move
\* on a non-terminal state returns a move and adds exactly one piece, the
\* loop is left only on a finished game, no step raises, and game over is
\* reached (after at most ROWS x COLS pieces).
C30_GameEnds ==
  /\ <>game_over
  /\ [][C30_TurnStep]_vars
  /\ [](game_over => Terminal(objs[1]))
  /\ [](pc # "raised")
  /\ [](PieceCount(objs[1].board) <= ROWS * COLS)

\* the loop has ended on a won position three or more AI moves after the
\* recorded position
C30_Witness ==
  /\ game_over
  /\ pc = "idle"
  /\ mode = "ai_play_move"
  /\ check_winner(objs[1]) # None
  /\ PieceCount(objs[1].board) >= Len(BaseMoves) + 3

====
